---- MODULE Spec2Model ----
(***************************************************************************)
(* A model of the factor-scoring and backtesting pipeline of the           *)
(* repository: factor_calc.py, historical_factor_generator.py,             *)
(* portfolio_constructor.py, backtester.py and the price updater of        *)
(* updater.py.                                                             *)
(*                                                                         *)
(* Numbers.  pandas computes in IEEE doubles; the model computes in exact  *)
(* arithmetic.  A real value is a record [nan, n, d] standing for n/d      *)
(* (d > 0) or for NaN.  Ranks are carried doubled (an average rank is a    *)
(* multiple of 1/2), quantile edges are carried times 6, and a standard    *)
(* deviation is carried as its square in the scoring engines (ranking by   *)
(* one is ranking by the other) and times the square root of the number of *)
(* returns in the weighting engine (the factor cancels in the weights).    *)
(* Composite scores are carried in hundredths.  Dates are day numbers; day *)
(* 0 is 2020-01-01 and quarters start every DaysPerQuarter days.           *)
(***************************************************************************)
EXTENDS Integers, Sequences, FiniteSets, TLC

VARIABLES
    today,              \* date.today()
    daily_prices,       \* table daily_prices: stock -> price history, or its rows
    fundamental_data,   \* table fundamental_data: stock -> set of snapshots
    factor_scores,      \* table factor_scores: sequence of rows
    last_run,           \* the factors_df frames of the last scoring run
    portfolio,          \* the last portfolio construction call and its result
    provider,           \* the closes the price provider (yfinance) serves
    backtest,           \* the run_backtest call: arguments, loop position, result
    evaluation,         \* the calculate_performance_metrics call and its result
    update              \* the fetch_n_save_price_data runs: count, days, downloads

vars == <<today, daily_prices, fundamental_data, factor_scores, last_run,
          portfolio, provider, backtest, evaluation, update>>

-----------------------------------------------------------------------------
(* Bounds of the model *)

NumStocks == 4
Stocks == 1..NumStocks

DaysPerQuarter == 91

(* SQL NULL / Python None / an integer column's NaN *)
Null == -1

-----------------------------------------------------------------------------
(* Exact reals *)

NaNQ == [nan |-> TRUE, n |-> 0, d |-> 1]
Q(n, d) == [nan |-> FALSE, n |-> n, d |-> d]
QOfInt(v) == IF v = Null THEN NaNQ ELSE Q(v, 1)
QLess(a, b) == a.n * b.d < b.n * a.d
QEq(a, b) == a.n * b.d = b.n * a.d

(* f itself, as a table: TLC evaluates a function constructor anew at      *)
(* every application, and a table once.                                    *)
RECURSIVE GCD(_, _)
GCD(a, b) == IF b = 0 THEN a ELSE GCD(b, a % b)

Abs(v) == IF v < 0 THEN 0 - v ELSE v

(* a fraction in lowest terms with a positive denominator *)
QNorm(n, d) ==
    LET g == GCD(Abs(n), Abs(d))
    IN  IF d < 0 THEN Q((0 - n) \div g, (0 - d) \div g)
        ELSE Q(n \div g, d \div g)

QAdd(a, b) == QNorm(a.n * b.d + b.n * a.d, a.d * b.d)
QMul(a, b) == QNorm(a.n * b.n, a.d * b.d)
QDiv(a, b) == QNorm(a.n * b.d, a.d * b.n)

Tab(f) == f @@ <<>>

Max(a, b) == IF a >= b THEN a ELSE b
Min(a, b) == IF a <= b THEN a ELSE b

-----------------------------------------------------------------------------
(* Price rows.  A stock's rows in daily_prices are one row per day from    *)
(* first to last (none when first > last); close_price is p0 before day    *)
(* chg and p1 from day chg on.                                             *)

NoRows == [first |-> 1, last |-> 0, chg |-> 0, p0 |-> 1, p1 |-> 1]

close_price(h, day) == IF day < h.chg THEN h.p0 ELSE h.p1

(* SELECT ... FROM daily_prices WHERE date >= from AND date <= to, for one *)
(* stock: the rows lo..hi of its history (empty when lo > hi).             *)
PriceRows(h, from, to) ==
    [lo |-> Max(h.first, from), hi |-> Min(h.last, to), h |-> h]

RowCount(pr) == IF pr.lo > pr.hi THEN 0 ELSE pr.hi - pr.lo + 1

(* groupby('stock_id')['close_price'].shift(days), read at the last row *)
ShiftedPrice(pr, days) ==
    IF RowCount(pr) > days THEN close_price(pr.h, pr.hi - days) ELSE Null

trading_day_periods == <<21, 63, 126, 252>>
momentum_weights == <<1, 2, 3, 4>>     \* 0.1, 0.2, 0.3, 0.4 in tenths
LookbackDays == 550

(* momentum_raw = 0.4 r12m + 0.3 r6m + 0.2 r3m + 0.1 r1m, in tenths, with   *)
(* r = (close - ago) / ago; NaN when a shifted price does not exist.       *)
momentum_raw(pr) ==
    LET ago == Tab([k \in 1..4 |-> ShiftedPrice(pr, trading_day_periods[k])])
        den == ago[1] * ago[2] * ago[3] * ago[4]
        last == close_price(pr.h, pr.hi)
        term(k) == momentum_weights[k] * (last - ago[k]) * (den \div ago[k])
    IN  IF \E k \in 1..4 : ago[k] = Null
        THEN NaNQ
        ELSE Q(term(1) + term(2) + term(3) + term(4), den)

(* pct_change().std() per stock, squared.  The daily return is 0 on every  *)
(* day but the day of the price change, where it is r = (p1 - p0) / p0;    *)
(* over m returns the sample variance (ddof = 1) is                        *)
(* (r^2 - r^2/m) / (m - 1) = r^2 / m.  NaN with fewer than 2 returns.      *)
volatility_raw(pr) ==
    LET m == RowCount(pr) - 1
        h == pr.h
        jump == pr.lo < h.chg /\ h.chg <= pr.hi /\ h.p0 # h.p1
    IN  IF m < 2 THEN NaNQ
        ELSE IF jump THEN Q((h.p1 - h.p0) * (h.p1 - h.p0), h.p0 * h.p0 * m)
        ELSE Q(0, 1)

-----------------------------------------------------------------------------
(* Series.rank(method='average', na_option='bottom'), doubled.  x maps     *)
(* the rows to reals; NaN rows tie with one another behind all others.     *)

Rank2(x, ascending) ==
    LET S == DOMAIN x
        Before(t, s) ==
            /\ ~x[t].nan
            /\ \/ x[s].nan
               \/ IF ascending THEN QLess(x[t], x[s]) ELSE QLess(x[s], x[t])
        Tied(t, s) ==
            \/ x[t].nan /\ x[s].nan
            \/ ~x[t].nan /\ ~x[s].nan /\ QEq(x[t], x[s])
    IN  Tab([s \in S |->
            2 * Cardinality({t \in S : Before(t, s)})
              + Cardinality({t \in S : Tied(t, s)}) + 1])

(* pd.qcut(x, 6, labels=False, duplicates='drop') + 1 for a series x of    *)
(* integers without NaN.  The edges are the quantiles k/6 of x (linear     *)
(* interpolation), times 6; duplicate edges are dropped; a value falls in  *)
(* the bin (edge[i-1], edge[i]], the lowest edge included in the first     *)
(* bin.  With a single edge left every label is NaN.                       *)
NumQuantiles == 6

OrderStat(x, j) ==
    CHOOSE v \in {x[s] : s \in DOMAIN x} :
        /\ Cardinality({t \in DOMAIN x : x[t] < v}) <= j
        /\ j < Cardinality({t \in DOMAIN x : x[t] <= v})

QuantileEdge(x, k) ==
    LET pos == (Cardinality(DOMAIN x) - 1) * k
        j == pos \div NumQuantiles
        r == pos % NumQuantiles
    IN  IF r = 0 THEN NumQuantiles * OrderStat(x, j)
        ELSE OrderStat(x, j) * (NumQuantiles - r) + OrderStat(x, j + 1) * r

qcut(x) ==
    LET bins == {QuantileEdge(x, k) : k \in 0..NumQuantiles}
        ids(s) == Cardinality({e \in bins : e < NumQuantiles * x[s]})
    IN  Tab([s \in DOMAIN x |->
            IF Cardinality(bins) = 1 THEN Null
            ELSE IF ids(s) = 0 THEN 1 ELSE ids(s)])

-----------------------------------------------------------------------------
(* Fundamentals.  A snapshot is a row of fundamental_data; NoSnapshot      *)
(* stands for "no row".                                                    *)

NoSnapshot ==
    [present |-> FALSE, date_recorded |-> 0, pe_ratio |-> Null,
     pb_ratio |-> Null, roe |-> Null, debt_equity |-> Null]

(* The fundamentals query of both engines: per stock the row with          *)
(* MAX(date_recorded), whatever the as-of date.                            *)
LatestSnapshot(snaps) ==
    IF snaps = {} THEN NoSnapshot
    ELSE CHOOSE f \in snaps : \A g \in snaps : g.date_recorded <= f.date_recorded

fundamentals_query(fd) == Tab([s \in Stocks |-> LatestSnapshot(fd[s])])

(* DataFrame[[a, b]].mean(axis=1), doubled: NaN cells are skipped *)
Mean2(a, b) ==
    IF a = Null /\ b = Null THEN NaNQ
    ELSE IF a = Null THEN Q(2 * b, 1)
    ELSE IF b = Null THEN Q(2 * a, 1)
    ELSE Q(a + b, 1)

-----------------------------------------------------------------------------
(* factor_calc.calculate_factors.  stocks_df is merged with fundamentals_df *)
(* first, and the merged frame's stock_id column is the fundamentals' one: *)
(* a stock without a snapshot has stock_id NaN and so finds no momentum    *)
(* and no volatility in the later merges on stock_id.                      *)

(* quality_rank_final of factor_calc, times four: the mean of the          *)
(* descending rank of ROE and the ascending rank of debt/equity            *)
quality_rank_final(f) ==
    LET roe_rank == Rank2(Tab([s \in Stocks |-> QOfInt(f[s].roe)]), FALSE)
        de_rank == Rank2(Tab([s \in Stocks |-> QOfInt(f[s].debt_equity)]), TRUE)
    IN  Tab([s \in Stocks |-> roe_rank[s] + de_rank[s]])

calculate_factors(prices_df, fundamentals_df) ==
    LET f == fundamentals_df
        mom == Tab([s \in Stocks |->
                  IF f[s].present THEN momentum_raw(prices_df[s]) ELSE NaNQ])
        vol == Tab([s \in Stocks |->
                  IF f[s].present THEN volatility_raw(prices_df[s]) ELSE NaNQ])
        pe_rank == Rank2(Tab([s \in Stocks |-> QOfInt(f[s].pe_ratio)]), TRUE)
        pb_rank == Rank2(Tab([s \in Stocks |-> QOfInt(f[s].pb_ratio)]), TRUE)
        momentum_rank == Rank2(mom, FALSE)
        volatility_rank == Rank2(vol, TRUE)
        value_score == qcut(Tab([s \in Stocks |-> pe_rank[s] + pb_rank[s]]))
        quality_score == qcut(quality_rank_final(f))
        momentum_score == qcut(momentum_rank)
        low_volatility_score == qcut(volatility_rank)
    IN  Tab([s \in Stocks |->
            [stock_id |-> IF f[s].present THEN s ELSE Null,
             momentum_raw |-> mom[s],
             volatility_raw |-> vol[s],
             value_score |-> value_score[s],
             quality_score |-> quality_score[s],
             momentum_score |-> momentum_score[s],
             low_volatility_score |-> low_volatility_score[s]]])

(* factor_calc.get_data: prices of the last 550 days, no upper date *)
get_data_prices(dp, now) ==
    Tab([s \in Stocks |-> PriceRows(dp[s], now - LookbackDays, dp[s].last)])

-----------------------------------------------------------------------------
(* historical_factor_generator.calculate_factors_for_date *)

prices_query(dp, target_date) ==
    Tab([s \in Stocks |->
        PriceRows(dp[s], target_date - LookbackDays, target_date)])

(* quality_rank of the historical generator, doubled: the descending rank *)
(* of the mean of ROE and debt/equity                                      *)
quality_rank(f) ==
    Rank2(Tab([s \in Stocks |-> Mean2(f[s].roe, f[s].debt_equity)]), FALSE)

factors_for_date(prices_df, fundamentals_df) ==
    LET f == fundamentals_df
        mom == Tab([s \in Stocks |-> momentum_raw(prices_df[s])])
        vol == Tab([s \in Stocks |-> volatility_raw(prices_df[s])])
        value_rank ==
            Rank2(Tab([s \in Stocks |->
                          Mean2(f[s].pe_ratio, f[s].pb_ratio)]), TRUE)
        momentum_rank == Rank2(mom, FALSE)
        volatility_rank == Rank2(vol, TRUE)
        value_score == qcut(value_rank)
        quality_score == qcut(quality_rank(f))
        momentum_score == qcut(momentum_rank)
        low_volatility_score == qcut(volatility_rank)
    IN  Tab([s \in Stocks |->
            [stock_id |-> s,
             momentum_raw |-> mom[s],
             volatility_raw |-> vol[s],
             value_score |-> value_score[s],
             quality_score |-> quality_score[s],
             momentum_score |-> momentum_score[s],
             low_volatility_score |-> low_volatility_score[s]]])

(* A frame of a run: ok = FALSE is the None of "Cannot generate scores" *)
NoFrame(date) == [date |-> date, ok |-> FALSE, rows |-> <<>>]

calculate_factors_for_date(target_date, dp, fd) ==
    LET prices_df == prices_query(dp, target_date)
        fundamentals_df == fundamentals_query(fd)
    IN  IF \/ \A s \in Stocks : RowCount(prices_df[s]) = 0
           \/ \A s \in Stocks : ~fundamentals_df[s].present
        THEN NoFrame(target_date)
        ELSE [date |-> target_date, ok |-> TRUE,
              rows |-> factors_for_date(prices_df, fundamentals_df)]

-----------------------------------------------------------------------------
(* The rows a frame writes to factor_scores, in stock order *)

ScoreRow(date, r) ==
    [stock_id |-> r.stock_id, date_calculated |-> date,
     value_score |-> r.value_score, quality_score |-> r.quality_score,
     momentum_score |-> r.momentum_score,
     low_volatility_score |-> r.low_volatility_score]

ScoreRows(frame) ==
    IF frame.ok
    THEN Tab([s \in Stocks |-> ScoreRow(frame.date, frame.rows[s])])
    ELSE <<>>

(* The frames of a historical run over the quarter starts up to day end,  *)
(* by quarter number, and the rows they append, in date order.             *)
HistoricalFrames(end, dp, fd) ==
    Tab([q \in 0..(end \div DaysPerQuarter) |->
            calculate_factors_for_date(q * DaysPerQuarter, dp, fd)])

RECURSIVE RowsOfFrames(_, _)
RowsOfFrames(frames, q) ==
    IF q \notin DOMAIN frames THEN <<>>
    ELSE ScoreRows(frames[q]) \o RowsOfFrames(frames, q + 1)

-----------------------------------------------------------------------------
(* Portfolio construction.  The factor recipes are the same table in       *)
(* portfolio_constructor and in backtester; the weights are in hundredths, *)
(* and so are the composite scores.                                        *)

FACTOR_WEIGHTS ==
    [conservative |-> [value_score |-> 15, quality_score |-> 40,
                       momentum_score |-> 5, low_volatility_score |-> 40],
     balanced     |-> [value_score |-> 25, quality_score |-> 25,
                       momentum_score |-> 25, low_volatility_score |-> 25],
     aggressive   |-> [value_score |-> 40, quality_score |-> 15,
                       momentum_score |-> 40, low_volatility_score |-> 5]]

(* portfolio_constructor.get_latest_factor_scores: the rows of the latest  *)
(* date_calculated, in table order.                                        *)
get_latest_factor_scores(fs) ==
    SelectSeq(fs, LAMBDA r :
        \A i \in DOMAIN fs : fs[i].date_calculated <= r.date_calculated)

(* backtester.build_portfolio_for_date's query: the rows of target_date *)
scores_for_date(fs, target_date) ==
    SelectSeq(fs, LAMBDA r : r.date_calculated = target_date)

(* portfolio_constructor.calculate_composite_score, for a valid profile:   *)
(* a NaN score makes the sum NaN.                                          *)
constructor_composite_score(r, risk_profile) ==
    LET weights == FACTOR_WEIGHTS[risk_profile]
    IN  IF \/ r.value_score = Null
           \/ r.quality_score = Null
           \/ r.momentum_score = Null
           \/ r.low_volatility_score = Null
        THEN Null
        ELSE r.value_score * weights.value_score
             + r.quality_score * weights.quality_score
             + r.momentum_score * weights.momentum_score
             + r.low_volatility_score * weights.low_volatility_score

fillna(v) == IF v = Null THEN 0 ELSE v

(* backtester.calculate_composite_score, for a valid profile *)
backtester_composite_score(r, risk_profile) ==
    LET weights == FACTOR_WEIGHTS[risk_profile]
    IN  fillna(r.value_score) * weights.value_score
        + fillna(r.quality_score) * weights.quality_score
        + fillna(r.momentum_score) * weights.momentum_score
        + fillna(r.low_volatility_score) * weights.low_volatility_score

PortfolioRow(r, composite) ==
    [stock_id |-> r.stock_id, date_calculated |-> r.date_calculated,
     value_score |-> r.value_score, quality_score |-> r.quality_score,
     momentum_score |-> r.momentum_score,
     low_volatility_score |-> r.low_volatility_score,
     composite_score |-> composite]

(* portfolio_df['momentum_score'] > 3: a NaN compares False *)
constructor_momentum_filter(r) == r.momentum_score > 3

(* A builder without its momentum filter, against which C3 is tried *)
momentum_filter_dropped(r) == TRUE

(* dropna(subset=['momentum_score']), then momentum_score > 3 *)
backtester_momentum_filter(r) ==
    r.momentum_score # Null /\ r.momentum_score > 3

(* sort_values(by='composite_score', ascending=False): a is put before b   *)
(* when its score is higher, or when b's is NaN.  The sort is the default  *)
(* kind='quicksort', which is not stable: where rows tie on a score, their *)
(* order is what the build's sorting routine makes of it, the same in      *)
(* every call of one build.  Two builds are modelled, one leaving tied     *)
(* rows in the order they came in and one leaving them in the reverse      *)
(* order; rows without a score go last in the order they came in.          *)
SortKinds == {"ties_in_order", "ties_reversed"}

SortsBefore(a, b) ==
    a.composite_score # Null
    /\ (b.composite_score = Null \/ a.composite_score > b.composite_score)

RemoveAt(rows, i) ==
    [k \in 1..(Len(rows) - 1) |-> IF k < i THEN rows[k] ELSE rows[k + 1]]

RECURSIVE sort_values(_, _)
sort_values(rows, kind) ==
    IF rows = <<>> THEN <<>>
    ELSE LET top == {k \in DOMAIN rows :
                        \A j \in DOMAIN rows : ~SortsBefore(rows[j], rows[k])}
             first == CHOOSE k \in top : \A j \in top : k <= j
             last == CHOOSE k \in top : \A j \in top : j <= k
             i == IF kind = "ties_reversed" /\ rows[first].composite_score # Null
                  THEN last ELSE first
         IN  <<rows[i]>> \o sort_values(RemoveAt(rows, i), kind)

head(rows, n) == SubSeq(rows, 1, Min(n, Len(rows)))

(* portfolio_constructor.build_portfolio for a valid profile: composite    *)
(* score, momentum filter, sort, head.                                     *)
constructor_portfolio(latest_scores, risk_profile, num_stocks, kind) ==
    LET scored == [k \in DOMAIN latest_scores |->
                     PortfolioRow(latest_scores[k],
                                  constructor_composite_score(latest_scores[k],
                                                              risk_profile))]
        portfolio_df == SelectSeq(scored, constructor_momentum_filter)
    IN  head(sort_values(portfolio_df, kind), num_stocks)

(* backtester.build_portfolio_for_date for a valid profile and a date with *)
(* scores: momentum filter, composite score, sort, head.                   *)
backtester_portfolio(scores, risk_profile, num_stocks, kind) ==
    LET valid_scores == SelectSeq(scores, backtester_momentum_filter)
        portfolio_df == [k \in DOMAIN valid_scores |->
                     PortfolioRow(valid_scores[k],
                                  backtester_composite_score(valid_scores[k],
                                                             risk_profile))]
    IN  head(sort_values(portfolio_df, kind), num_stocks)

RiskProfiles == DOMAIN FACTOR_WEIGHTS

-----------------------------------------------------------------------------
(* backtester.get_stock_prices.  The provider holds, for each ticker, a    *)
(* close on every trading day of its listing; the frame of a download has  *)
(* a row for each trading day in [start, end) on which a requested ticker  *)
(* has a close, and a column for each ticker with a close in the range     *)
(* (dropna(axis=1, how='all')).                                            *)

TradingGap == 30

(* The exchange's calendar: a session every TradingGap days, and on every  *)
(* other quarter start (a business quarter start is a business day, on     *)
(* which the exchange is open but for a holiday such as the first of       *)
(* January).                                                               *)
TradingDay(d) == d % TradingGap = 0 \/ d % (2 * DaysPerQuarter) = 0

Observed(prov, t, d) ==
    TradingDay(d) /\ prov[t].first <= d /\ d <= prov[t].last

get_stock_prices(prov, tickers, start_date, end_date) ==
    LET days == {d \in start_date..(end_date - 1) : TradingDay(d)}
    IN  [columns |-> {t \in tickers : \E d \in days : Observed(prov, t, d)},
         index |-> {d \in days : \E t \in tickers : Observed(prov, t, d)}]

FrameEmpty(prices) == prices.columns = {} \/ prices.index = {}

PrevRow(prices, d) ==
    CHOOSE e \in prices.index :
        e < d /\ \A f \in prices.index : f < d => f <= e

(* prices.pct_change(fill_method=None).dropna(): the rows, after the       *)
(* first, on which every column has a close and had one on the row before  *)
ReturnDays(prov, prices) ==
    {d \in prices.index :
        /\ \E e \in prices.index : e < d
        /\ \A t \in prices.columns :
              /\ Observed(prov, t, d)
              /\ Observed(prov, t, PrevRow(prices, d))}

daily_return(prov, prices, t, d) ==
    LET before == close_price(prov[t], PrevRow(prices, d))
    IN  QNorm(close_price(prov[t], d) - before, before)

(* returns.std() of a column.  A listing has one price change at most, so  *)
(* the m returns of a column are 0 but for one return r at most, and their *)
(* standard deviation is |r| / sqrt(m): it is carried times sqrt(m), m     *)
(* being the same for every column of the frame.  NaN with fewer than two  *)
(* returns.                                                                *)
returns_std(prov, prices, t) ==
    LET days == ReturnDays(prov, prices)
        moved == {d \in days : daily_return(prov, prices, t, d).n # 0}
    IN  IF Cardinality(days) < 2 THEN NaNQ
        ELSE IF moved = {} THEN Q(0, 1)
        ELSE LET r == daily_return(prov, prices, t, CHOOSE d \in moved : TRUE)
             IN  Q(Abs(r.n), r.d)

RECURSIVE SumQ(_, _)
SumQ(x, s) ==
    IF s = 0 THEN Q(0, 1)
    ELSE IF s \in DOMAIN x /\ ~x[s].nan THEN QAdd(SumQ(x, s - 1), x[s])
    ELSE SumQ(x, s - 1)

NoWeights == [none |-> TRUE, w |-> <<>>]

equal_weights(prices) ==
    Tab([t \in prices.columns |-> Q(1, Cardinality(prices.columns))])

(* Inverse volatilities left as they are, without the division by their    *)
(* sum, against which C9 is tried                                          *)
inverse_volatility_unnormalised(prov, prices) ==
    Tab([t \in prices.columns |->
            LET volatility == returns_std(prov, prices, t)
            IN  IF volatility.nan \/ volatility.n = 0 THEN NaNQ
                ELSE QDiv(Q(1, 1), volatility)])

(* volatility.replace(0, nan); inverse_vol = 1 / volatility;               *)
(* inverse_vol / inverse_vol.sum(), the sum skipping NaN                   *)
inverse_volatility_weights(prov, prices) ==
    LET volatility == Tab([t \in prices.columns |->
                              returns_std(prov, prices, t)])
        inverse_vol == Tab([t \in prices.columns |->
                              IF volatility[t].nan \/ volatility[t].n = 0
                              THEN NaNQ
                              ELSE QDiv(Q(1, 1), volatility[t])])
        total == SumQ(inverse_vol, NumStocks)
    IN  Tab([t \in prices.columns |->
                IF inverse_vol[t].nan \/ total.n = 0 THEN NaNQ
                ELSE QDiv(inverse_vol[t], total)])

(* backtester.calculate_weights: no branch for another scheme, None *)
calculate_weights(prov, prices, scheme) ==
    IF scheme = "equal"
    THEN [none |-> FALSE, w |-> equal_weights(prices)]
    ELSE IF scheme = "inverse_volatility"
    THEN [none |-> FALSE, w |-> inverse_volatility_weights(prov, prices)]
    ELSE NoWeights

RECURSIVE SortedDays(_)
SortedDays(days) ==
    IF days = {} THEN <<>>
    ELSE LET d == CHOOSE d \in days : \A e \in days : d <= e
         IN  <<d>> \o SortedDays(days \ {d})

(* (daily_returns * weights).sum(axis=1): the columns are aligned with the *)
(* weights' index and NaN products are skipped by the sum                  *)
period_portfolio_returns(prov, prices, weights) ==
    LET days == SortedDays(ReturnDays(prov, prices))
        product(d) == Tab([t \in prices.columns \intersect DOMAIN weights |->
                             IF weights[t].nan THEN NaNQ
                             ELSE QMul(daily_return(prov, prices, t, d),
                                       weights[t])])
    IN  [k \in DOMAIN days |->
            [date |-> days[k], value |-> SumQ(product(days[k]), NumStocks)]]

(* pd.date_range(start, end, freq='BQS'), in order *)
RebalanceDates(start_date, end_date) ==
    {d \in {q * DaysPerQuarter : q \in 0..(end_date \div DaysPerQuarter)} :
        d >= start_date}

TrailingDays == 365

(* A concatenation that puts the latest period first, against which C12   *)
(* is tried                                                                *)
RECURSIVE concat_latest_first(_)
concat_latest_first(all_returns) ==
    IF all_returns = <<>> THEN <<>>
    ELSE concat_latest_first(Tail(all_returns)) \o Head(all_returns)

(* pd.concat(all_returns) *)
RECURSIVE concat(_)
concat(all_returns) ==
    IF all_returns = <<>> THEN <<>>
    ELSE Head(all_returns) \o concat(Tail(all_returns))

-----------------------------------------------------------------------------
(* The data the stores and the provider can hold.  A stock's price history *)
(* is one of a few listings with one price change at most; the             *)
(* fundamentals table and the provider's data follow one of a few          *)
(* patterns.                                                               *)

Today == 300

PriceHistories ==
    << [first |-> -300, last |-> 300, chg |-> -50, p0 |-> 2, p1 |-> 1],
       [first |-> 100, last |-> 300, chg |-> 100, p0 |-> 2, p1 |-> 2],
       [first |-> -300, last |-> 300, chg |-> -300, p0 |-> 1, p1 |-> 1],
       [first |-> -300, last |-> 300, chg |-> 220, p0 |-> 1, p1 |-> 2],
       [first |-> -300, last |-> 300, chg |-> 100, p0 |-> 2, p1 |-> 1],
       NoRows >>

Snapshot(d, pe, pb, roe, de) ==
    [present |-> TRUE, date_recorded |-> d, pe_ratio |-> pe,
     pb_ratio |-> pb, roe |-> roe, debt_equity |-> de]

(* What the fundamentals table holds, stock by stock: figures that differ  *)
(* from stock to stock; rows with every figure missing; no row at all; and *)
(* a mix with later snapshots, missing figures and a stock without a row.  *)
FundPatterns ==
    { [s \in Stocks |-> {Snapshot(-100, 10 + s, 1 + (s % 2), 1 + (s % 3),
                                  1 + ((s + 1) % 2))}],
      [s \in Stocks |-> {Snapshot(-100, Null, Null, Null, Null)}],
      [s \in Stocks |-> {}],
      [s \in Stocks |->
          IF s % 4 = 0 THEN {}
          ELSE IF s % 4 = 1
               THEN {Snapshot(-100, 10, 2, 3, 1), Snapshot(200, 30, 3, 1, 3)}
          ELSE IF s % 4 = 2 THEN {Snapshot(-100, Null, Null, 2, Null)}
          ELSE {Snapshot(-100, 20, 1, 2, 2)}] }

(* The engines rank the rows whatever their order, so the price histories  *)
(* of a universe are taken in non-decreasing order.                        *)
PriceUniverses ==
    {u \in [Stocks -> DOMAIN PriceHistories] :
        \A s \in Stocks : s + 1 \in Stocks => u[s] <= u[s + 1]}

(* What the provider serves, stock by stock: a full listing for every      *)
(* stock, flat or with one price change; or patchy listings, one delisted  *)
(* early, one listed late, one unknown to the provider.                    *)
ProviderPatterns ==
    << [s \in Stocks |->
          IF s % 4 = 1
          THEN [first |-> -400, last |-> 400, chg |-> 60, p0 |-> 1, p1 |-> 2]
          ELSE IF s % 4 = 2
          THEN [first |-> -400, last |-> 230, chg |-> 150, p0 |-> 4, p1 |-> 1]
          ELSE IF s % 4 = 3
          THEN [first |-> -400, last |-> 400, chg |-> -400, p0 |-> 1, p1 |-> 1]
          ELSE [first |-> -400, last |-> 400, chg |-> -60, p0 |-> 2, p1 |-> 3]],
       [s \in Stocks |->
          IF s % 4 = 1
          THEN [first |-> -400, last |-> 400, chg |-> 210, p0 |-> 1, p1 |-> 2]
          ELSE IF s % 4 = 2 THEN NoRows
          ELSE IF s % 4 = 3
          THEN [first |-> -400, last |-> 80, chg |-> -60, p0 |-> 1, p1 |-> 2]
          ELSE [first |-> 160, last |-> 400, chg |-> 240, p0 |-> 2, p1 |-> 1]] >>

NoRun == [engine |-> "none", frames |-> {}]

NoEvaluation == [pc |-> "idle", returns |-> <<>>, metrics |-> <<>>]

(* No price update has run *)
NoUpdate == [runs |-> 0, days |-> <<>>, downloads |-> <<>>]

(* The stores on day now: the price table has no row dated after it *)
InitDataAt(now) ==
    /\ today = now
    /\ evaluation = NoEvaluation
    /\ update = NoUpdate
    /\ \E u \in PriceUniverses :
          daily_prices =
              [s \in Stocks |->
                  [PriceHistories[u[s]] EXCEPT !.last = Min(@, now)]]
    /\ fundamental_data \in FundPatterns

InitData == InitDataAt(Today)

NoPortfolio ==
    [fn |-> "none", risk_profile |-> "", num_stocks |-> 0, date |-> Null,
     outcome |-> "none", score_query |-> FALSE, rows |-> <<>>,
     sort_kind |-> ""]

NoBacktest ==
    [pc |-> "idle", risk_profile |-> "", weighting_scheme |-> "",
     num_stocks |-> 0, rebalance_dates |-> <<>>, i |-> 0,
     all_returns |-> <<>>, result |-> <<>>, error |-> "",
     score_queries |-> 0, price_fetches |-> 0, log |-> <<>>,
     sort_kind |-> ""]

(* Scoring and portfolio construction do not consult the provider, and no  *)
(* backtest is running.                                                    *)
NoBacktestData ==
    /\ provider = ProviderPatterns[1]
    /\ backtest = NoBacktest

(* The scoring engines run on the first day of a quarter or on a later    *)
(* day of it.                                                              *)
ScoringDays == {(Today \div DaysPerQuarter) * DaysPerQuarter, Today}

Init ==
    /\ \E now \in ScoringDays : InitDataAt(now)
    /\ factor_scores = <<>>
    /\ last_run = NoRun
    /\ portfolio = NoPortfolio
    /\ NoBacktestData

-----------------------------------------------------------------------------
(* factor_calc.main: get_data, calculate_factors, save_scores_to_db.       *)
(* save_scores_to_db deletes today's rows and appends the new ones; a row  *)
(* with a NULL stock_id breaks the table's NOT NULL constraint, the        *)
(* exception is caught in main and the connection is closed uncommitted.   *)

factor_calc_frame(dp, fd, now) ==
    [date |-> now, ok |-> TRUE,
     rows |-> calculate_factors(get_data_prices(dp, now),
                                fundamentals_query(fd))]

save_scores_to_db(fs, frame) ==
    IF \E s \in Stocks : frame.rows[s].stock_id = Null
    THEN fs
    ELSE SelectSeq(fs, LAMBDA r : r.date_calculated # frame.date)
           \o ScoreRows(frame)

factor_calc_main ==
    LET frame == factor_calc_frame(daily_prices, fundamental_data, today)
    IN  /\ last_run' = [engine |-> "factor_calc", frames |-> {frame}]
        /\ factor_scores' = save_scores_to_db(factor_scores, frame)
        /\ UNCHANGED <<today, daily_prices, fundamental_data, portfolio,
                       provider, backtest, evaluation, update>>

(* historical_factor_generator.main: delete every score, then for each     *)
(* quarter start from 2020-01-01 to today compute and append.              *)
historical_main ==
    LET frames == HistoricalFrames(today, daily_prices, fundamental_data)
    IN  /\ last_run' = [engine |-> "historical",
                        frames |-> {frames[q] : q \in DOMAIN frames}]
        /\ factor_scores' = RowsOfFrames(frames, 0)
        /\ UNCHANGED <<today, daily_prices, fundamental_data, portfolio,
                       provider, backtest, evaluation, update>>

Next ==
    \/ factor_calc_main
    \/ historical_main

Spec == Init /\ [][Next]_vars

-----------------------------------------------------------------------------
(* Portfolio construction over a scored database: the table as the         *)
(* historical generator leaves it, with or without a later factor_calc run, *)
(* or still empty.  A call reads the table and nothing of the call before  *)
(* it, so a behaviour follows one call.                                    *)

MaxN == 2
ProfileArgs == RiskProfiles \union {"speculative"}

ScoredTables(dp, fd, now) ==
    LET historical == RowsOfFrames(HistoricalFrames(now, dp, fd), 0)
    IN  {<<>>, historical,
         save_scores_to_db(historical, factor_calc_frame(dp, fd, now))}

InitPortfolio ==
    /\ InitData
    /\ factor_scores \in ScoredTables(daily_prices, fundamental_data, today)
    /\ last_run = NoRun
    /\ portfolio = NoPortfolio
    /\ NoBacktestData

(* portfolio_constructor.build_portfolio: the scores are read first; the   *)
(* ValueError of an unknown profile is caught by the function's own        *)
(* except clause, printed, and None is returned.                           *)
build_portfolio(risk_profile, num_stocks, kind) ==
    LET latest_scores == get_latest_factor_scores(factor_scores)
    IN  /\ portfolio.fn = "none"
        /\ portfolio' =
              [fn |-> "build_portfolio", risk_profile |-> risk_profile,
               num_stocks |-> num_stocks, date |-> Null,
               outcome |-> IF risk_profile \in RiskProfiles
                           THEN "rows" ELSE "none",
               score_query |-> TRUE,
               rows |-> IF risk_profile \in RiskProfiles
                        THEN constructor_portfolio(latest_scores,
                                                   risk_profile, num_stocks,
                                                   kind)
                        ELSE <<>>,
               sort_kind |-> kind]
        /\ UNCHANGED <<today, daily_prices, fundamental_data, factor_scores,
                       last_run, provider, backtest, evaluation, update>>

(* backtester.build_portfolio_for_date: None when the date has no scores;  *)
(* otherwise the KeyError of an unknown profile leaves the function (there *)
(* is a finally clause and no except clause).                              *)
portfolio_for_date(fs, target_date, risk_profile, num_stocks, kind) ==
    LET scores == scores_for_date(fs, target_date)
        call == [fn |-> "build_portfolio_for_date",
                 risk_profile |-> risk_profile, num_stocks |-> num_stocks,
                 date |-> target_date, outcome |-> "none",
                 score_query |-> TRUE, rows |-> <<>>, sort_kind |-> kind]
    IN  IF scores = <<>> THEN call
        ELSE IF risk_profile \notin RiskProfiles
        THEN [call EXCEPT !.outcome = "raised"]
        ELSE [call EXCEPT !.outcome = "rows",
                          !.rows = backtester_portfolio(scores, risk_profile,
                                                        num_stocks, kind)]

build_portfolio_for_date(target_date, risk_profile, num_stocks, kind) ==
    /\ portfolio.fn = "none"
    /\ portfolio' = portfolio_for_date(factor_scores, target_date,
                                       risk_profile, num_stocks, kind)
    /\ UNCHANGED <<today, daily_prices, fundamental_data, factor_scores,
                   last_run, provider, backtest, evaluation, update>>

NextPortfolio ==
    \/ \E risk_profile \in ProfileArgs, num_stocks \in 1..MaxN,
          kind \in SortKinds :
          build_portfolio(risk_profile, num_stocks, kind)
    \/ \E target_date \in RebalanceDates(today - 2 * DaysPerQuarter,
                                          today + DaysPerQuarter),
          risk_profile \in ProfileArgs, num_stocks \in 1..MaxN,
          kind \in SortKinds :
          build_portfolio_for_date(target_date, risk_profile, num_stocks, kind)

SpecPortfolio == InitPortfolio /\ [][NextPortfolio]_vars

-----------------------------------------------------------------------------
(* backtester.run_backtest over a database scored by the historical        *)
(* generator: the call, one step for each pass of the loop over the        *)
(* rebalance dates, and the return.  A run keeps nothing from the run      *)
(* before it (all_returns is a local), so a behaviour follows one call.    *)

WeightingSchemes == {"equal", "inverse_volatility"}
SchemeArgs == WeightingSchemes \union {"risk_parity"}
StartDates == {0, 2 * DaysPerQuarter, 3 * DaysPerQuarter}
BacktestProfiles == {"balanced", "speculative"}

InitBacktest ==
    /\ InitData
    /\ factor_scores =
          RowsOfFrames(HistoricalFrames(today, daily_prices,
                                        fundamental_data), 0)
    /\ last_run = NoRun
    /\ portfolio = NoPortfolio
    /\ \E k \in DOMAIN ProviderPatterns : provider = ProviderPatterns[k]
    /\ backtest = NoBacktest

run_backtest(risk_profile, weighting_scheme, start_date, end_date, num_stocks, kind) ==
    /\ backtest.pc = "idle"
    /\ backtest' =
          [NoBacktest EXCEPT
              !.pc = "loop", !.risk_profile = risk_profile,
              !.weighting_scheme = weighting_scheme,
              !.num_stocks = num_stocks, !.sort_kind = kind,
              !.rebalance_dates =
                  SortedDays(RebalanceDates(start_date, end_date))]
    /\ portfolio' = NoPortfolio
    /\ UNCHANGED <<today, daily_prices, fundamental_data, factor_scores,
                   last_run, provider, evaluation, update>>

(* A skip that records a zero return on the rebalance date instead of      *)
(* nothing, against which C10 is tried                                     *)
continue_with_zero_return(bt, entry) ==
    [bt EXCEPT !.i = @ + 1, !.log = Append(@, entry),
               !.all_returns =
                   Append(@, <<[date |-> entry.date, value |-> Q(0, 1)]>>)]

(* A skip that passes over the rebalance date after the skipped one,       *)
(* against which C18 is tried                                              *)
continue_after_next(bt, entry) ==
    [bt EXCEPT !.i = @ + 2, !.log = Append(@, entry)]

(* The loop's continue: on to the next rebalance date, nothing collected *)
continue_loop(bt, entry) ==
    [bt EXCEPT !.i = @ + 1, !.log = Append(@, entry)]

(* One pass of the loop body, lines 73-93 *)
PeriodStep(bt, fs, prov) ==
    LET rebalance_date == bt.rebalance_dates[bt.i + 1]
        period_end == bt.rebalance_dates[bt.i + 2]
        call == portfolio_for_date(fs, rebalance_date, bt.risk_profile,
                                   bt.num_stocks, bt.sort_kind)
        tickers == {call.rows[k].stock_id : k \in DOMAIN call.rows}
        prices_for_weights ==
            get_stock_prices(prov, tickers, rebalance_date - TrailingDays,
                             rebalance_date)
        weights == calculate_weights(prov, prices_for_weights,
                                     bt.weighting_scheme)
        prices_for_returns ==
            get_stock_prices(prov, DOMAIN weights.w, rebalance_date,
                             period_end)
        entry(status, w) ==
            [date |-> rebalance_date, status |-> status, tickers |-> tickers,
             columns |-> IF status \in {"no_scores", "KeyError",
                                        "empty_portfolio"}
                         THEN {} ELSE prices_for_weights.columns,
             weights |-> w]
        queried == [bt EXCEPT !.score_queries = @ + 1]
        skip(b, status, w) == continue_loop(b, entry(status, w))
        raise(b, error, w) ==
            [b EXCEPT !.pc = "raised", !.error = error,
                      !.log = Append(@, entry(error, w))]
        fetched(b, n) == [b EXCEPT !.price_fetches = @ + n]
    IN  [portfolio |-> call,
         backtest |->
            IF call.outcome = "raised"
            THEN raise(queried, "KeyError", NoWeights)
            ELSE IF call.outcome = "none"
            THEN skip(queried, "no_scores", NoWeights)
            ELSE IF call.rows = <<>>
            THEN skip(queried, "empty_portfolio", NoWeights)
            ELSE IF FrameEmpty(prices_for_weights)
            THEN skip(fetched(queried, 1), "no_weight_prices", NoWeights)
            ELSE IF weights.none
            THEN raise(fetched(queried, 1), "AttributeError", weights)
            ELSE IF FrameEmpty(prices_for_returns)
            THEN skip(fetched(queried, 2), "no_return_prices", weights)
            ELSE [fetched(queried, 2) EXCEPT
                     !.i = @ + 1,
                     !.log = Append(@, entry("returns", weights)),
                     !.all_returns =
                         Append(@, period_portfolio_returns(
                                       prov, prices_for_returns, weights.w))]]

backtest_period ==
    /\ backtest.pc = "loop"
    /\ backtest.i + 1 < Len(backtest.rebalance_dates)
    /\ LET step == PeriodStep(backtest, factor_scores, provider)
       IN  /\ backtest' = step.backtest
           /\ portfolio' = step.portfolio
    /\ UNCHANGED <<today, daily_prices, fundamental_data, factor_scores,
                   last_run, provider, evaluation, update>>

(* lines 95-96: an empty Series when nothing was collected *)
backtest_return ==
    /\ backtest.pc = "loop"
    /\ backtest.i + 1 >= Len(backtest.rebalance_dates)
    /\ backtest' = [backtest EXCEPT !.pc = "returned",
                                    !.result = concat(backtest.all_returns)]
    /\ UNCHANGED <<today, daily_prices, fundamental_data, factor_scores,
                   last_run, portfolio, provider, evaluation, update>>

NextBacktest ==
    \/ \E risk_profile \in BacktestProfiles, weighting_scheme \in SchemeArgs,
          start_date \in StartDates, num_stocks \in {1, MaxN},
          kind \in SortKinds :
          run_backtest(risk_profile, weighting_scheme, start_date, today,
                       num_stocks, kind)
    \/ backtest_period
    \/ backtest_return

SpecBacktest == InitBacktest /\ [][NextBacktest]_vars

-----------------------------------------------------------------------------
(* backtester.calculate_performance_metrics.  The returns are binary       *)
(* floating-point numbers and every operation on them rounds to nearest,   *)
(* ties to even.  A float is m * 2^e with 2^(Precision-1) <= |m| <         *)
(* 2^Precision, or zero; binary64 has a precision of 53 bits, the model    *)
(* keeps fewer and no bound on the exponent.                               *)

Precision == 4
MaxSeriesLen == 3

RECURSIVE Pow2(_)
Pow2(k) == IF k = 0 THEN 1 ELSE 2 * Pow2(k - 1)

FZero == [m |-> 0, e |-> 0]
FOne == [m |-> Pow2(Precision - 1), e |-> 1 - Precision]

(* The float nearest to (sign * a / d) * 2^e, for a > 0 and d > 0 *)
RECURSIVE RoundScaled(_, _, _, _)
RoundScaled(sign, a, d, e) ==
    IF a < Pow2(Precision - 1) * d THEN RoundScaled(sign, 2 * a, d, e - 1)
    ELSE IF a >= Pow2(Precision) * d THEN RoundScaled(sign, a, 2 * d, e + 1)
    ELSE LET q == a \div d
             r == a % d
             up == 2 * r > d \/ (2 * r = d /\ q % 2 = 1)
             m == IF up THEN q + 1 ELSE q
         IN  IF m = Pow2(Precision)
             THEN [m |-> sign * Pow2(Precision - 1), e |-> e + 1]
             ELSE [m |-> sign * m, e |-> e]

(* The float nearest to the rational n / d, d > 0 *)
Round(n, d) ==
    IF n = 0 THEN FZero
    ELSE RoundScaled(IF n < 0 THEN -1 ELSE 1, Abs(n), d, 0)

(* x as the rational num / den over the power of two den *)
FNum(x, low) == x.m * Pow2(x.e - low)
FLow(x, y) == Min(Min(x.e, y.e), 0)

FAdd(x, y) ==
    LET low == FLow(x, y)
    IN  Round(FNum(x, low) + FNum(y, low), Pow2(-low))

FSub(x, y) == FAdd(x, [m |-> -y.m, e |-> y.e])

FMul(x, y) ==
    LET e == x.e + y.e
    IN  IF e >= 0 THEN Round(x.m * y.m * Pow2(e), 1)
        ELSE Round(x.m * y.m, Pow2(-e))

(* x / n for a count n > 0 *)
FDivCount(x, n) ==
    IF x.e >= 0 THEN Round(x.m * Pow2(x.e), n)
    ELSE Round(x.m, Pow2(-x.e) * n)

(* returns.sum(), a loop over the values in order *)
RECURSIVE FSum(_, _)
FSum(x, k) == IF k = 0 THEN FZero ELSE FAdd(FSum(x, k - 1), x[k])

(* (1 + returns).prod(), a loop over the values in order *)
RECURSIVE FProd(_, _)
FProd(x, k) == IF k = 0 THEN FOne ELSE FMul(FProd(x, k - 1), x[k])

(* returns.std() squared: pandas' nanvar with ddof=1 takes the mean, then  *)
(* the sum of the squared differences from it, over count - 1.  The        *)
(* standard deviation, and its product with sqrt(252), is zero exactly     *)
(* when this is.                                                           *)
returns_var(returns) ==
    LET count == Len(returns)
        avg == FDivCount(FSum(returns, count), count)
        sqr == [k \in DOMAIN returns |->
                   LET diff == FSub(avg, returns[k]) IN FMul(diff, diff)]
    IN  FDivCount(FSum(sqr, count), count - 1)

NotAvailable == [na |-> TRUE, class |-> "N/A"]

(* The class of a float: zero, positive or negative *)
ClassOf(x) ==
    [na |-> FALSE,
     class |-> IF x.m = 0 THEN "zero"
               ELSE IF x.m > 0 THEN "positive" ELSE "negative"]

(* The four metrics.  The powers and quotients are carried by their class: *)
(* (1 + total_return) ** (252 / len) - 1 is NaN for a negative base and    *)
(* has the sign of the base less one otherwise; the Sharpe ratio is the    *)
(* quotient of the annualized return by the annualized volatility, with    *)
(* the signs of the first, unless the volatility equals zero, when it is   *)
(* 0.0.                                                                    *)
performance_metrics(returns) ==
    IF Len(returns) < 2
    THEN [total_return |-> NotAvailable, annualized_return |-> NotAvailable,
          annualized_volatility |-> NotAvailable,
          sharpe_ratio |-> NotAvailable]
    ELSE LET growth == FProd([k \in DOMAIN returns |->
                                 FAdd(FOne, returns[k])], Len(returns))
             total_return == FSub(growth, FOne)
             base == FAdd(FOne, total_return)
             annualized_return ==
                 IF base.m < 0 THEN [na |-> FALSE, class |-> "nan"]
                 ELSE IF base.m = 0 THEN [na |-> FALSE, class |-> "negative"]
                 ELSE ClassOf(FSub(base, FOne))
             annualized_volatility == ClassOf(returns_var(returns))
             sharpe_ratio ==
                 IF annualized_volatility.class # "zero"
                 THEN annualized_return
                 ELSE [na |-> FALSE, class |-> "zero"]
         IN  [total_return |-> ClassOf(total_return),
              annualized_return |-> annualized_return,
              annualized_volatility |-> annualized_volatility,
              sharpe_ratio |-> sharpe_ratio]

(* The returns a series can hold: zero, and a few floats of either sign *)
ReturnValues ==
    {FZero} \union
    {[m |-> sign * m, e |-> e] :
        sign \in {-1, 1},
        m \in {Pow2(Precision - 1), Pow2(Precision) - 2},
        e \in {-3 - Precision}}

ReturnSeries ==
    UNION {[1..n -> ReturnValues] : n \in 0..MaxSeriesLen}

InitMetrics ==
    /\ today = Today
    /\ daily_prices = [s \in Stocks |-> NoRows]
    /\ fundamental_data = [s \in Stocks |-> {}]
    /\ factor_scores = <<>>
    /\ last_run = NoRun
    /\ portfolio = NoPortfolio
    /\ NoBacktestData
    /\ update = NoUpdate
    /\ \E returns \in ReturnSeries :
          evaluation = [NoEvaluation EXCEPT !.returns = returns]

calculate_performance_metrics ==
    /\ evaluation.pc = "idle"
    /\ evaluation' =
          [evaluation EXCEPT !.pc = "returned",
                             !.metrics =
                                 performance_metrics(evaluation.returns)]
    /\ UNCHANGED <<today, daily_prices, fundamental_data, factor_scores,
                   last_run, portfolio, provider, backtest,
                   update>>

NextMetrics == calculate_performance_metrics

SpecMetrics == InitMetrics /\ [][NextMetrics]_vars

-----------------------------------------------------------------------------
(* updater.fetch_n_save_price_data.  Here the table daily_prices is kept   *)
(* row by row, in insertion order: a row is [stock_id, date, close_price]  *)
(* and its id is its position (the volume is left out).  A ticker is       *)
(* named by its stock id.                                                  *)

(* date(2010, 1, 1), day 0 being 2020-01-01 *)
default_start_date == -3652

MaxRuns == 3

NoDate == [present |-> FALSE, date |-> 0]

(* SELECT MAX(date) FROM daily_prices WHERE stock_id = ?; NoDate for None *)
get_last_price(table, stock_id) ==
    LET dates == {table[i].date :
                     i \in {j \in DOMAIN table : table[j].stock_id = stock_id}}
    IN  IF dates = {} THEN NoDate
        ELSE [present |-> TRUE,
              date |-> CHOOSE d \in dates : \A e \in dates : e <= d]

next_start_date_inclusive(last_date) ==
    IF last_date.present THEN last_date.date ELSE default_start_date

(* start_date: the day after the last stored date, or the default start *)
next_start_date(last_date) ==
    IF last_date.present THEN last_date.date + 1 ELSE default_start_date

RECURSIVE InDateOrder(_)
InDateOrder(days) ==
    IF days = {} THEN <<>>
    ELSE LET d == CHOOSE e \in days : \A f \in days : e <= f
         IN  <<d>> \o InDateOrder(days \ {d})

(* What a download can do: serve the ticker's closes; serve them with the *)
(* last close missing (NaN); serve them from the session before start on   *)
(* (the provider cuts the range in the exchange's time zone); return an    *)
(* empty frame; or raise.                                                  *)
DownloadOutcomes == {"served", "no_close", "early_row", "empty", "raised"}

(* The last session before day on which the ticker has a close, if any *)
SessionBefore(prov, ticker, day) ==
    LET before == {d \in prov[ticker].first..(day - 1) :
                      Observed(prov, ticker, d)}
    IN  {d \in before : \A e \in before : e <= d}

(* yf.download(ticker, start, end): a row for each trading day in          *)
(* [start, end) on which the ticker has a close, in date order             *)
download(prov, ticker, start, end, outcome) ==
    LET days == {d \in Max(start, prov[ticker].first)..(end - 1) :
                    Observed(prov, ticker, d)}
        early == IF outcome = "early_row"
                 THEN SessionBefore(prov, ticker, start)
                 ELSE {}
        index == InDateOrder(days \union early)
    IN  IF outcome \in {"empty", "raised"} THEN <<>>
        ELSE [k \in DOMAIN index |->
                 [date |-> index[k],
                  Close |-> IF outcome = "no_close" /\ k = Len(index)
                            THEN Null
                            ELSE close_price(prov[ticker], index[k])]]

(* data[['stock_id', 'close_price', 'volume']].reset_index() *)
data_to_save(stock_id, data) ==
    [k \in DOMAIN data |->
        [stock_id |-> stock_id, date |-> data[k].date,
         close_price |-> data[k].Close]]

(* DataFrame.to_sql('daily_prices', if_exists='append'): one transaction,  *)
(* rolled back when a row breaks NOT NULL (close_price) or                 *)
(* UNIQUE (stock_id, date).                                                *)
to_sql(table, frame) ==
    LET stored == {<<table[i].stock_id, table[i].date>> : i \in DOMAIN table}
        broken ==
            \/ \E k \in DOMAIN frame : frame[k].close_price = Null
            \/ \E k \in DOMAIN frame :
                  <<frame[k].stock_id, frame[k].date>> \in stored
            \/ \E j, k \in DOMAIN frame :
                  /\ j < k
                  /\ frame[j].stock_id = frame[k].stock_id
                  /\ frame[j].date = frame[k].date
    IN  IF broken THEN table ELSE table \o frame

(* One pass of the loop over the tickers, with its try / except *)
update_stock(table, prov, now, stock_id, outcome) ==
    LET last_date == get_last_price(table, stock_id)
        start == next_start_date(last_date)
        end_date == now
        requested == start < end_date
        data == download(prov, stock_id, start, end_date, outcome)
        raised == outcome = "raised" \/ data = <<>>
        saved == IF requested /\ ~raised
                 THEN to_sql(table, data_to_save(stock_id, data))
                 ELSE table
    IN  [table |-> saved,
         download |-> [requested |-> requested, start |-> start,
                       end |-> end_date,
                       outcome |-> IF requested THEN outcome ELSE "none",
                       saved |-> Len(saved) - Len(table)]]

RECURSIVE update_loop(_, _, _, _, _)
update_loop(table, prov, now, outcomes, stock_id) ==
    IF stock_id > NumStocks THEN [table |-> table, downloads |-> <<>>]
    ELSE LET pass == update_stock(table, prov, now, stock_id,
                                  outcomes[stock_id])
             rest == update_loop(pass.table, prov, now, outcomes,
                                 stock_id + 1)
         IN  [table |-> rest.table,
              downloads |-> <<pass.download>> \o rest.downloads]

(* What the provider does in one run, ticker by ticker: it serves every    *)
(* ticker, or fails for some of them in one way or another.                *)
RunOutcomes ==
    { [s \in Stocks |-> "served"],
      [s \in Stocks |-> IF s % 2 = 0 THEN "raised" ELSE "served"],
      [s \in Stocks |-> IF s % 2 = 1 THEN "empty" ELSE "served"],
      [s \in Stocks |-> IF s % 3 = 0 THEN "no_close" ELSE "served"],
      [s \in Stocks |-> IF s % 2 = 0 THEN "early_row" ELSE "served"] }

(* The days on which the updater runs: before, on and after a session *)
UpdateDays ==
    {Today - TradingGap - 1, Today - TradingGap, Today - TradingGap + 1,
     Today, Today + 1}

InitUpdater ==
    /\ today \in UpdateDays
    /\ daily_prices = <<>>
    /\ fundamental_data = [s \in Stocks |-> {}]
    /\ factor_scores = <<>>
    /\ last_run = NoRun
    /\ portfolio = NoPortfolio
    /\ \E k \in DOMAIN ProviderPatterns : provider = ProviderPatterns[k]
    /\ backtest = NoBacktest
    /\ evaluation = NoEvaluation
    /\ update = NoUpdate

fetch_n_save_price_data ==
    /\ update.runs < MaxRuns
    /\ \E outcomes \in RunOutcomes :
          LET run == update_loop(daily_prices, provider, today, outcomes, 1)
          IN  /\ daily_prices' = run.table
              /\ update' = [runs |-> update.runs + 1,
                            days |-> Append(update.days, today),
                            downloads |-> run.downloads]
    /\ UNCHANGED <<today, fundamental_data, factor_scores, last_run,
                   portfolio, provider, backtest, evaluation>>

(* date.today() on a later day *)
DayPasses ==
    /\ \E d \in UpdateDays : d > today /\ today' = d
    /\ UNCHANGED <<daily_prices, fundamental_data, factor_scores, last_run,
                   portfolio, provider, backtest, evaluation, update>>

NextUpdater ==
    \/ fetch_n_save_price_data
    \/ DayPasses

SpecUpdater == InitUpdater /\ [][NextUpdater]_vars

-----------------------------------------------------------------------------
(* C1: on any date, for any two stocks scored together, a strictly higher  *)
(* raw momentum never gets a lower momentum_score, and a strictly lower    *)
(* raw volatility never gets a lower low_volatility_score (6 is best), in  *)
(* both engines.                                                           *)
C1_ScoringDirection ==
    \A fr \in last_run.frames :
        fr.ok =>
            \A a, b \in Stocks :
                LET ra == fr.rows[a]
                    rb == fr.rows[b]
                IN  /\ ( /\ ~ra.momentum_raw.nan /\ ~rb.momentum_raw.nan
                         /\ QLess(rb.momentum_raw, ra.momentum_raw) )
                       => ra.momentum_score >= rb.momentum_score
                    /\ ( /\ ~ra.volatility_raw.nan /\ ~rb.volatility_raw.nan
                         /\ QLess(ra.volatility_raw, rb.volatility_raw) )
                       => ra.low_volatility_score >= rb.low_volatility_score

(* The rows of the stores dated after D removed *)
PricesUpTo(dp, D) ==
    [s \in Stocks |-> [dp[s] EXCEPT !.last = Min(dp[s].last, D)]]
FundsUpTo(fd, D) ==
    [s \in Stocks |-> {f \in fd[s] : f.date_recorded <= D}]

(* C2: the scores calculate_factors_for_date gives for D are those it      *)
(* gives when every price row and every fundamental row dated after D is   *)
(* taken away: nothing dated after D changes them.                         *)
C2_NoLookAhead ==
    last_run.engine = "historical" =>
        \A fr \in last_run.frames :
            fr = calculate_factors_for_date(
                    fr.date, PricesUpTo(daily_prices, fr.date),
                    FundsUpTo(fundamental_data, fr.date))


(* C3: neither build_portfolio nor build_portfolio_for_date returns a      *)
(* stock whose momentum_score is 3 or less, or is null.                    *)
C3_MomentumFilter ==
    portfolio.outcome = "rows" =>
        \A k \in DOMAIN portfolio.rows :
            /\ portfolio.rows[k].momentum_score # Null
            /\ portfolio.rows[k].momentum_score > 3

(* a portfolio was returned while a scored stock of its date was left out  *)
(* for its momentum_score                                                  *)
C3_Witness ==
    /\ portfolio.fn = "build_portfolio_for_date"
    /\ portfolio.outcome = "rows"
    /\ portfolio.rows # <<>>
    /\ \E i \in DOMAIN factor_scores :
          /\ factor_scores[i].date_calculated = portfolio.date
          /\ factor_scores[i].momentum_score <= 3

(* C4: a stock whose price history up to D is too short for a raw momentum *)
(* is not in the portfolio build_portfolio_for_date returns for D.         *)
C4_NoMomentumNotHeld ==
    (portfolio.fn = "build_portfolio_for_date" /\ portfolio.outcome = "rows")
    => \A k \in DOMAIN portfolio.rows :
          ~momentum_raw(prices_query(daily_prices, portfolio.date)
                            [portfolio.rows[k].stock_id]).nan

(* C5: the composite score of every returned stock is the weighted sum of  *)
(* its four scores under the profile, a null score counting as zero, in    *)
(* both scorers.                                                           *)
C5_CompositeFormula ==
    portfolio.outcome = "rows" =>
        \A k \in DOMAIN portfolio.rows :
            LET r == portfolio.rows[k]
                weights == FACTOR_WEIGHTS[portfolio.risk_profile]
            IN  r.composite_score =
                    fillna(r.value_score) * weights.value_score
                    + fillna(r.quality_score) * weights.quality_score
                    + fillna(r.momentum_score) * weights.momentum_score
                    + fillna(r.low_volatility_score)
                        * weights.low_volatility_score

(* The scored rows a construction call reads, and those eligible *)
CallScores ==
    IF portfolio.fn = "build_portfolio"
    THEN get_latest_factor_scores(factor_scores)
    ELSE scores_for_date(factor_scores, portfolio.date)

Eligible == SelectSeq(CallScores, LAMBDA r : r.momentum_score > 3)

CompositeOf(stock_id) ==
    LET k == CHOOSE k \in DOMAIN CallScores : CallScores[k].stock_id = stock_id
    IN  IF portfolio.fn = "build_portfolio"
        THEN constructor_composite_score(CallScores[k], portfolio.risk_profile)
        ELSE backtester_composite_score(CallScores[k], portfolio.risk_profile)

(* x >= y on floats: False when either is NaN *)
FloatGE(x, y) == x # Null /\ y # Null /\ x >= y

(* C8: with F eligible stocks and N requested, a construction call with a  *)
(* valid profile does not raise and returns min(N, F) eligible stocks, in   *)
(* non-increasing composite order, each with a composite score at least    *)
(* that of every eligible stock left out.                                  *)
C8_TopN ==
    (portfolio.fn # "none" /\ portfolio.risk_profile \in RiskProfiles) =>
        LET rows == portfolio.rows
            held == {rows[k].stock_id : k \in DOMAIN rows}
        IN  /\ portfolio.outcome # "raised"
            /\ Len(rows) = Min(portfolio.num_stocks, Len(Eligible))
            /\ Cardinality(held) = Len(rows)
            /\ held \subseteq {Eligible[k].stock_id : k \in DOMAIN Eligible}
            /\ \A k \in 1..(Len(rows) - 1) :
                  FloatGE(rows[k].composite_score, rows[k + 1].composite_score)
            /\ \A k \in DOMAIN rows, e \in DOMAIN Eligible :
                  Eligible[e].stock_id \notin held =>
                      FloatGE(rows[k].composite_score,
                              CompositeOf(Eligible[e].stock_id))

(* C6: a call of build_portfolio or run_backtest with an unrecognised risk *)
(* profile raises to the caller: build_portfolio does not return, a        *)
(* backtest never returns a series, and neither reads a score or fetches a *)
(* price.                                                                  *)
C6_InvalidProfileFailsFast ==
    /\ (portfolio.fn = "build_portfolio"
        /\ portfolio.risk_profile \notin RiskProfiles)
       => (portfolio.outcome = "raised" /\ ~portfolio.score_query)
    /\ (backtest.pc # "idle" /\ backtest.risk_profile \notin RiskProfiles)
       => /\ backtest.pc # "returned"
          /\ backtest.score_queries = 0
          /\ backtest.price_fetches = 0

(* C7: a call of run_backtest with an unknown weighting scheme raises to   *)
(* the caller: it never returns a series, and it builds no portfolio and   *)
(* fetches no price.                                                       *)
C7_UnknownSchemeFailsFast ==
    (backtest.pc # "idle" /\ backtest.weighting_scheme \notin WeightingSchemes)
    => /\ backtest.pc # "returned"
       /\ backtest.score_queries = 0
       /\ backtest.price_fetches = 0

(* The sum of the non-null weights of a period *)
WeightSum(entry) == SumQ(entry.weights.w, NumStocks)

(* The trailing window from which a period's weights were computed *)
TrailingWindow(entry) ==
    get_stock_prices(provider, entry.tickers, entry.date - TrailingDays,
                     entry.date)

HasVolatility(entry, t) ==
    LET vol == returns_std(provider, TrailingWindow(entry), t)
    IN  ~vol.nan /\ vol.n # 0

Weighted(entry) == ~entry.weights.none /\ DOMAIN entry.weights.w # {}

(* C9 as stated: the non-null weights of every computed weight set sum to  *)
(* 1, under both schemes.                                                  *)
C9_WeightsSumToOne ==
    \A k \in DOMAIN backtest.log :
        Weighted(backtest.log[k]) => QEq(WeightSum(backtest.log[k]), Q(1, 1))

(* C9, amended: under equal weighting, and under inverse_volatility when   *)
(* at least one holding has a defined, non-zero trailing volatility, the   *)
(* non-null weights sum to 1; under inverse_volatility a holding gets a    *)
(* null weight exactly when its trailing volatility is zero or undefined.  *)
C9_WeightsSumToOneWhenDefined ==
    \A k \in DOMAIN backtest.log :
        LET entry == backtest.log[k]
        IN  Weighted(entry) =>
              /\ (\/ backtest.weighting_scheme = "equal"
                  \/ \E t \in entry.columns : HasVolatility(entry, t))
                 => QEq(WeightSum(entry), Q(1, 1))
              /\ backtest.weighting_scheme = "inverse_volatility"
                 => \A t \in entry.columns :
                       entry.weights.w[t].nan <=> ~HasVolatility(entry, t)
              /\ \A t \in entry.columns :
                    ~entry.weights.w[t].nan => entry.weights.w[t].n > 0

(* inverse-volatility weights of two holdings, one of zero trailing        *)
(* volatility and a null weight, the other with all the weight             *)
C9_Witness ==
    \E k \in DOMAIN backtest.log :
        LET entry == backtest.log[k]
        IN  /\ backtest.weighting_scheme = "inverse_volatility"
            /\ Weighted(entry)
            /\ \E t, u \in entry.columns :
                  /\ returns_std(provider, TrailingWindow(entry), t) = Q(0, 1)
                  /\ entry.weights.w[t].nan
                  /\ HasVolatility(entry, u)
                  /\ entry.weights.w[u] = Q(1, 1)

(* The pass about to run skips its period: the portfolio built for the     *)
(* rebalance date is missing or empty, or the forward fetch finds no close *)
(* for any of the holdings in the period.                                  *)
SkippedPeriod ==
    /\ backtest.pc = "loop"
    /\ backtest.i + 1 < Len(backtest.rebalance_dates)
    /\ LET rebalance_date == backtest.rebalance_dates[backtest.i + 1]
           period_end == backtest.rebalance_dates[backtest.i + 2]
           call == portfolio_for_date(factor_scores, rebalance_date,
                                      backtest.risk_profile,
                                      backtest.num_stocks, backtest.sort_kind)
           held == {call.rows[k].stock_id : k \in DOMAIN call.rows}
           trailing == get_stock_prices(provider, held,
                                        rebalance_date - TrailingDays,
                                        rebalance_date)
       IN  /\ call.outcome # "raised"
           /\ \/ call.rows = <<>>
              \/ /\ ~FrameEmpty(trailing)
                 /\ backtest.weighting_scheme \in WeightingSchemes
                 /\ \A t \in trailing.columns :
                       \A d \in rebalance_date..(period_end - 1) :
                           ~Observed(provider, t, d)

(* C10: a pass whose period is skipped adds nothing to the collected       *)
(* returns and leaves the loop at the next rebalance date; a run that      *)
(* returns has passed every period.                                        *)
C10_SkippedPeriodAddsNothing ==
    [][/\ (SkippedPeriod /\ backtest' # backtest)
          => /\ backtest'.all_returns = backtest.all_returns
             /\ backtest'.pc = "loop"
             /\ backtest'.i = backtest.i + 1
       /\ backtest'.pc = "returned"
          => /\ backtest'.i + 1 >= Len(backtest'.rebalance_dates)
             /\ backtest'.result = concat(backtest'.all_returns)]_vars

(* a run returned a series with rows of a later period after skipping one  *)
(* period for its empty portfolio and one for its missing forward prices   *)
C10_Witness ==
    /\ backtest.pc = "returned"
    /\ backtest.result # <<>>
    /\ \E j, k \in DOMAIN backtest.log :
          /\ j < k
          /\ backtest.log[j].status \in {"empty_portfolio", "no_return_prices"}
          /\ backtest.log[k].status = "returns"
          /\ \E r \in DOMAIN backtest.result :
                backtest.result[r].date > backtest.log[k].date

(* The rows the run has collected for the period of log entry k *)
PeriodRows(k) ==
    LET rows == concat(backtest.all_returns)
    IN  {r \in DOMAIN rows :
            /\ rows[r].date >= backtest.rebalance_dates[k]
            /\ rows[r].date < backtest.rebalance_dates[k + 1]}

ObservationsIn(t, start_date, end_date) ==
    {d \in start_date..(end_date - 1) : Observed(provider, t, d)}

(* No holding of the entry has two closes in its trailing window *)
TooFewObservations(entry) ==
    \A t \in entry.tickers :
        Cardinality(ObservationsIn(t, entry.date - TrailingDays,
                                   entry.date)) < 2

(* Every holding of the entry has a trailing volatility of exactly zero *)
AllZeroVolatility(entry) ==
    /\ entry.columns # {}
    /\ \A t \in entry.columns :
          returns_std(provider, TrailingWindow(entry), t) = Q(0, 1)

(* C11: under either scheme, a period whose holdings all have fewer than   *)
(* two closes in the trailing window, or, under inverse_volatility, all    *)
(* have zero trailing volatility, adds no row to the collected returns.    *)
C11_NoUsableWeightsAddsNothing ==
    \A k \in DOMAIN backtest.log :
        LET entry == backtest.log[k]
        IN  (/\ backtest.weighting_scheme \in WeightingSchemes
             /\ entry.tickers # {}
             /\ \/ TooFewObservations(entry)
                \/ /\ backtest.weighting_scheme = "inverse_volatility"
                   /\ AllZeroVolatility(entry))
            => PeriodRows(k) = {}

(* The daily returns of the period of log entry k, from the provider's     *)
(* prices and the weights the entry recorded; none for a skipped period    *)
PeriodReturns(k) ==
    LET entry == backtest.log[k]
    IN  IF entry.status = "returns"
        THEN period_portfolio_returns(
                 provider,
                 get_stock_prices(provider, DOMAIN entry.weights.w,
                                  entry.date, backtest.rebalance_dates[k + 1]),
                 entry.weights.w)
        ELSE <<>>

InPeriod(row, k) ==
    /\ row.date >= backtest.rebalance_dates[k]
    /\ row.date < backtest.rebalance_dates[k + 1]

ResultOfPeriod(k) ==
    LET Test(row) == InPeriod(row, k)
    IN  SelectSeq(backtest.result, Test)

EveryPeriodSkipped ==
    \A k \in DOMAIN backtest.log : backtest.log[k].status # "returns"

(* C12: the returned series is the concatenation of the non-skipped        *)
(* periods' daily returns in period order: its dates increase strictly,    *)
(* every row lies in a period and the rows of a period are that period's   *)
(* returns; it is the empty series when every period was skipped or there  *)
(* are fewer than two rebalance dates, in which case nothing is raised.    *)
C12_ReturnSeriesIsConcatenation ==
    /\ backtest.pc = "returned" =>
          LET result == backtest.result
          IN  /\ \A a, b \in DOMAIN result :
                    a < b => result[a].date < result[b].date
              /\ \A a \in DOMAIN result :
                    \E k \in DOMAIN backtest.log : InPeriod(result[a], k)
              /\ \A k \in DOMAIN backtest.log :
                    ResultOfPeriod(k) = PeriodReturns(k)
              /\ Len(backtest.log) = Max(0, Len(backtest.rebalance_dates) - 1)
              /\ (EveryPeriodSkipped \/ Len(backtest.rebalance_dates) < 2)
                    => result = <<>>
    /\ backtest.pc = "raised" =>
          /\ Len(backtest.rebalance_dates) >= 2
          /\ backtest.log[Len(backtest.log)].status
                \in {"KeyError", "AttributeError"}

(* Two consecutive periods have returns, and the date they share is a      *)
(* trading day, which the series holds once, as the later period's start   *)
(* is no return day                                                        *)
C12_Witness ==
    /\ backtest.pc = "returned"
    /\ \E k \in DOMAIN backtest.log :
          /\ k + 1 \in DOMAIN backtest.log
          /\ PeriodReturns(k) # <<>>
          /\ PeriodReturns(k + 1) # <<>>
          /\ TradingDay(backtest.rebalance_dates[k + 1])
          /\ \E t \in DOMAIN backtest.log[k + 1].weights.w :
                Observed(provider, t, backtest.rebalance_dates[k + 1])

(* The rows a pass of the run read for the rebalance date of log entry k,  *)
(* in the order of the query, and those that pass the momentum filter      *)
PeriodScores(k) == scores_for_date(factor_scores, backtest.log[k].date)

PeriodEligible(k) == SelectSeq(PeriodScores(k), backtester_momentum_filter)

(* C13: a run is a function of its arguments and of the data: at every     *)
(* rebalance date the holdings are the N eligible stocks of highest        *)
(* composite score, and of the stocks that tie on the score at the cut-off *)
(* those earlier in the input order are held, whatever the build.          *)
C13_TiesByInputOrder ==
    \A k \in DOMAIN backtest.log :
        LET entry == backtest.log[k]
            rows == PeriodEligible(k)
            composite(r) ==
                backtester_composite_score(r, backtest.risk_profile)
        IN  backtest.risk_profile \in RiskProfiles =>
                \A a, b \in DOMAIN rows :
                    (/\ a < b
                     /\ composite(rows[a]) = composite(rows[b])
                     /\ rows[b].stock_id \in entry.tickers)
                    => rows[a].stock_id \in entry.tickers

AllEqual(returns) ==
    \A a, b \in DOMAIN returns : returns[a] = returns[b]

(* C14: calculate_performance_metrics returns for every series: the four   *)
(* metrics are "N/A" for a series of fewer than two returns, and the       *)
(* Sharpe ratio is exactly 0 for a series of two or more equal returns.    *)
C14_MetricsNeverRaise ==
    evaluation.pc = "returned" =>
        LET returns == evaluation.returns
            metrics == evaluation.metrics
        IN  /\ Len(returns) < 2 =>
                  /\ metrics.total_return = NotAvailable
                  /\ metrics.annualized_return = NotAvailable
                  /\ metrics.annualized_volatility = NotAvailable
                  /\ metrics.sharpe_ratio = NotAvailable
            /\ (Len(returns) >= 2 /\ AllEqual(returns)) =>
                  metrics.sharpe_ratio = [na |-> FALSE, class |-> "zero"]

OneRecordPerStockAndDate(fs) ==
    \A a, b \in DOMAIN fs :
        (/\ fs[a].stock_id = fs[b].stock_id
         /\ fs[a].date_calculated = fs[b].date_calculated) => a = b

RowsOfDate(fs, date) == SelectSeq(fs, LAMBDA r : r.date_calculated = date)

(* C15: after every run of a scoring engine the table holds one record at  *)
(* most for a stock and a date, and a run of factor_calc on a day that has *)
(* records already replaces them by the scores it computed.                *)
C15_RecomputeOverwrites ==
    [][/\ OneRecordPerStockAndDate(factor_scores')
       /\ (/\ last_run'.engine = "factor_calc"
           /\ RowsOfDate(factor_scores, today) # <<>>)
          => \A frame \in last_run'.frames :
                RowsOfDate(factor_scores', today) = ScoreRows(frame)]_vars

Factors ==
    {"value_score", "quality_score", "momentum_score", "low_volatility_score"}

(* The number of stocks a frame puts in bucket b of a factor *)
BucketCount(fr, factor, b) ==
    Cardinality({s \in Stocks : fr.rows[s][factor] = b})

(* C16: in every frame of scores, of either engine, every score is an      *)
(* integer from 1 to 6 or null, and for each factor the numbers of stocks  *)
(* in any two of the six buckets differ by one at most, ties included.     *)
C16_EvenBuckets ==
    \A fr \in last_run.frames :
        fr.ok =>
            \A factor \in Factors :
                /\ \A s \in Stocks :
                      fr.rows[s][factor] \in 1..NumQuantiles \union {Null}
                /\ \A a, b \in 1..NumQuantiles :
                      BucketCount(fr, factor, a)
                          <= BucketCount(fr, factor, b) + 1

(* The fundamentals both engines score a stock on *)
ScoredOn(s) == fundamentals_query(fundamental_data)[s]

StrictlyGreater(x, y) == x # Null /\ y # Null /\ x > y

(* C17: in every frame of scores, a stock without P/E and without P/B has  *)
(* no higher value_score than a stock with both, and a stock without ROE   *)
(* and without debt/equity no higher quality_score than a stock with both. *)
C17_MissingRanksWorst ==
    \A fr \in last_run.frames :
        fr.ok =>
            \A a, b \in Stocks :
                LET fa == ScoredOn(a)
                    fb == ScoredOn(b)
                IN  /\ (/\ fa.pe_ratio = Null /\ fa.pb_ratio = Null
                        /\ fb.pe_ratio # Null /\ fb.pb_ratio # Null)
                       => ~StrictlyGreater(fr.rows[a].value_score,
                                           fr.rows[b].value_score)
                    /\ (/\ fa.roe = Null /\ fa.debt_equity = Null
                        /\ fb.roe # Null /\ fb.debt_equity # Null)
                       => ~StrictlyGreater(fr.rows[a].quality_score,
                                           fr.rows[b].quality_score)

(* The passes of the loop that took rebalance date d *)
PassesAt(d) == {k \in DOMAIN backtest.log : backtest.log[k].date = d}

(* C18 as stated: a run that returns has started a holding period at every *)
(* rebalance date of the range, each date being used exactly once.         *)
C18_EveryRebalanceDateUsed ==
    backtest.pc = "returned" =>
        \A j \in DOMAIN backtest.rebalance_dates :
            Cardinality(PassesAt(backtest.rebalance_dates[j])) = 1

(* C18: the run takes the rebalance dates in increasing order, one pass    *)
(* and one portfolio each, a pass for date d(k) holding from d(k) to       *)
(* d(k+1); the last date only ends the last period, and no pass takes it.  *)
(* The run ends after a pass for every date but the last: every pass adds  *)
(* an entry to a log that never has more entries than there are dates.     *)
C18_EveryDateButTheLastUsedOnce ==
    LET dates == backtest.rebalance_dates
    IN  /\ \A a, b \in DOMAIN dates : a < b => dates[a] < dates[b]
        /\ Len(backtest.log) <= Max(0, Len(dates) - 1)
        /\ \A k \in DOMAIN backtest.log : backtest.log[k].date = dates[k]
        /\ backtest.score_queries = Len(backtest.log)
        /\ backtest.pc = "loop" => backtest.i = Len(backtest.log)
        /\ backtest.pc = "returned" =>
              /\ Len(backtest.log) = Max(0, Len(dates) - 1)
              /\ \A j \in 1..(Len(dates) - 1) :
                    Cardinality(PassesAt(dates[j])) = 1
              /\ Len(dates) > 0 => PassesAt(dates[Len(dates)]) = {}
        /\ \A k \in DOMAIN backtest.log :
              LET entry == backtest.log[k]
              IN  entry.status = "returns" =>
                      \A r \in DOMAIN PeriodReturns(k) :
                          /\ PeriodReturns(k)[r].date > dates[k]
                          /\ PeriodReturns(k)[r].date < dates[k + 1]

(* A run over four rebalance dates has returned after three passes, one    *)
(* of them skipped and one with returns                                   *)
C18_Witness ==
    /\ backtest.pc = "returned"
    /\ Len(backtest.rebalance_dates) = 4
    /\ Len(backtest.log) = 3
    /\ \E k \in DOMAIN backtest.log : backtest.log[k].status = "returns"
    /\ \E k \in DOMAIN backtest.log : backtest.log[k].status # "returns"

(* The forward frame of the period of log entry k *)
ForwardFrame(k) ==
    get_stock_prices(provider, DOMAIN backtest.log[k].weights.w,
                     backtest.log[k].date, backtest.rebalance_dates[k + 1])

(* The holdings of entry k with a daily return on day d of the frame: a    *)
(* close on d and a close on the row before                                *)
WithReturn(k, d) ==
    LET prices == ForwardFrame(k)
    IN  {t \in prices.columns :
            /\ \E e \in prices.index : e < d
            /\ Observed(provider, t, d)
            /\ Observed(provider, t, PrevRow(prices, d))}

(* C19: in a period that is not skipped, every day on which a holding has  *)
(* a daily return has a row in the collected returns, and the row's value  *)
(* is the sum of weight times return over the holdings with a return on    *)
(* that day.                                                               *)
C19_EveryReturnDayAppears ==
    \A k \in DOMAIN backtest.log :
        LET entry == backtest.log[k]
            prices == ForwardFrame(k)
            rows == concat(backtest.all_returns)
            expected(d) ==
                SumQ(Tab([t \in WithReturn(k, d) |->
                             IF entry.weights.w[t].nan THEN NaNQ
                             ELSE QMul(daily_return(provider, prices, t, d),
                                       entry.weights.w[t])]),
                     NumStocks)
        IN  entry.status = "returns" =>
                \A d \in prices.index :
                    WithReturn(k, d) # {} =>
                        \E r \in PeriodRows(k) :
                            /\ rows[r].date = d
                            /\ rows[r].value = expected(d)

(* The rows each engine computes from one set of inputs: the prices up to  *)
(* the date of frame fr and the fundamentals of the store                  *)
FactorCalcOn(fr) ==
    calculate_factors(prices_query(daily_prices, fr.date),
                      fundamentals_query(fundamental_data))

HistoricalOn(fr) ==
    factors_for_date(prices_query(daily_prices, fr.date),
                     fundamentals_query(fundamental_data))

(* C20: on the inputs of any frame of a run the two engines give every     *)
(* stock the same value_score and the same quality_score, and of two       *)
(* stocks with the same ROE the one with the lower debt/equity is not      *)
(* ranked worse (a larger quality rank) by either.                         *)
C20_EnginesAgree ==
    \A fr \in last_run.frames :
        fr.ok =>
            /\ \A s \in Stocks :
                  /\ FactorCalcOn(fr)[s].value_score
                        = HistoricalOn(fr)[s].value_score
                  /\ FactorCalcOn(fr)[s].quality_score
                        = HistoricalOn(fr)[s].quality_score
            /\ \A a, b \in Stocks :
                  (/\ ScoredOn(a).roe # Null
                   /\ ScoredOn(a).roe = ScoredOn(b).roe
                   /\ ScoredOn(a).debt_equity # Null
                   /\ ScoredOn(b).debt_equity # Null
                   /\ ScoredOn(a).debt_equity < ScoredOn(b).debt_equity)
                  => LET f == fundamentals_query(fundamental_data)
                     IN  /\ quality_rank_final(f)[a] <= quality_rank_final(f)[b]
                         /\ quality_rank(f)[a] <= quality_rank(f)[b]

(* The (stock_id, date) pairs of the rows of the price table *)
PriceKeys(table) ==
    {<<table[i].stock_id, table[i].date>> : i \in DOMAIN table}

UniquePerStockAndDate(table) == Cardinality(PriceKeys(table)) = Len(table)

(* Every row of old is a row of new, at the same id and unchanged *)
AppendOnly(old, new) ==
    /\ Len(old) <= Len(new)
    /\ \A i \in DOMAIN old : new[i] = old[i]

(* Every download of a run starts after every date stored for its stock *)
RequestsAfterLatest(table, downloads) ==
    \A s \in Stocks :
        downloads[s].requested =>
            \A i \in DOMAIN table :
                table[i].stock_id = s => downloads[s].start > table[i].date

(* C21: whatever the runs of fetch_n_save_price_data (several on one day,  *)
(* the provider failing or returning nothing for some tickers), every      *)
(* step leaves the price table with no (stock_id, date) pair twice and     *)
(* with every row it held before, unchanged and in place, and every        *)
(* download of a run starts strictly after the latest date stored for its  *)
(* stock before the run.                                                   *)
C21_PriceHistoryAppendOnly ==
    [][ /\ UniquePerStockAndDate(daily_prices')
        /\ AppendOnly(daily_prices, daily_prices')
        /\ update'.runs # update.runs =>
              RequestsAfterLatest(daily_prices, update'.downloads) ]_vars

(* Two runs on one day, the later of which met a failing download and      *)
(* appended rows for a stock that already had some                         *)
C21_Witness ==
    /\ update.runs >= 2
    /\ update.days[update.runs] = update.days[update.runs - 1]
    /\ \E s \in Stocks : update.downloads[s].outcome \in {"empty", "raised"}
    /\ \E s \in Stocks :
          /\ update.downloads[s].start > default_start_date
          /\ update.downloads[s].saved > 0

====
